---------------------------- MODULE Spec2Model ----------------------------
(***************************************************************************)
(* A model of scripts/reputation.py, the ERC-8004 reputation registry CLI. *)
(*                                                                         *)
(* The module holds four state machines over one set of variables:         *)
(*   SpecCodec   bytes32_from_string / string_from_bytes32                 *)
(*   SpecLookup  cmd_lookup                                                *)
(*   SpecMyRep   cmd_my_rep                                                *)
(*   Spec        the write commands cmd_give and cmd_revoke                *)
(* A Python str is a sequence of code points, a bytes value a sequence of  *)
(* numbers 0..255, an exception message a sequence of characters.          *)
(***************************************************************************)
EXTENDS Integers, Sequences, FiniteSets, TLC

VARIABLES
    cpc,      \* codec: "start" | "encoded" | "raised" | "decoded"
    cs,       \* codec: the str given to bytes32_from_string
    cb,       \* codec: the bytes it returned
    cdec,     \* codec: the str string_from_bytes32 returned for cb
    lpc,      \* lookup: "start" | "connect" | "summary" | "detail" | "done"
    largs,    \* lookup: the parsed arguments [agent_id, chain]
    lsum,     \* lookup: what getSummary(agent).call() did
    lfb,      \* lookup: what readAllFeedback(agent).call() did
    lrpc,     \* lookup: the RPC calls made so far, in order
    lout,     \* lookup: the lines printed so far
    lexit,    \* lookup: the exit status of the process, once lpc = "done"
    mpc,      \* my-rep: "start" | "chains" | "done"
    margs,    \* my-rep: the parsed arguments [agent_id]
    mi,       \* my-rep: the position in CHAINS of the chain queried next
    mres,     \* my-rep: what the query of each chain did, in the order made
    mrpc,     \* my-rep: the RPC calls made so far, as (chain, call)
    mout,     \* my-rep: the lines printed so far
    mexit,    \* my-rep: the exit status of the process, once mpc = "done"
    inv,      \* write: the invocations of give and revoke, each a record
    ledger,   \* write: the agent's feedback records on the chain, by index
    txcount,  \* write: the chain's transaction count of each wallet address
    txs       \* write: the transactions broadcast, a hash being a position

codecVars == <<cpc, cs, cb, cdec>>

lookupVars == <<lpc, largs, lsum, lfb, lrpc, lout, lexit>>

myRepVars == <<mpc, margs, mi, mres, mrpc, mout, mexit>>

writeVars == <<inv, ledger, txcount, txs>>

notCodecVars == <<lookupVars, myRepVars, writeVars>>

notLookupVars == <<codecVars, myRepVars, writeVars>>

notMyRepVars == <<codecVars, lookupVars, writeVars>>

notWriteVars == <<codecVars, lookupVars, myRepVars>>

vars == <<cpc, cs, cb, cdec, lpc, largs, lsum, lfb, lrpc, lout, lexit,
          mpc, margs, mi, mres, mrpc, mout, mexit, inv, ledger, txcount, txs>>

(***************************************************************************)
(* Bounds of the model.                                                    *)
(***************************************************************************)
\* the longest run of one repeated code point at the head of a codec input
MaxRep == 38
\* the longest free suffix that follows the run
MaxSuffix == 2
\* the most records readAllFeedback returns
MaxFeedback == 4
\* the most records the ledger holds when a write command starts
MaxLedger == 2
\* the most revoke invocations run one after another
MaxRuns == 2

(***************************************************************************)
(* Sequences.                                                              *)
(***************************************************************************)
Min(a, b) == IF a <= b THEN a ELSE b

Rep(x, n) == [i \in 1..n |-> x]

Take(s, n) == SubSeq(s, 1, Min(Len(s), n))

SeqsUpTo(S, n) == UNION {[1..k -> S] : k \in 0..n}

(***************************************************************************)
(* UTF-8, as Python's str.encode('utf-8') and                              *)
(* bytes.decode('utf-8', errors='ignore') compute it.                      *)
(***************************************************************************)
\* the width of a bytes32 slot
Width == 32

IsSurrogate(cp) == cp >= 55296 /\ cp <= 57343

\* the bytes of one code point (a surrogate has none: encode raises)
Utf8OfCodePoint(cp) ==
    IF cp < 128 THEN <<cp>>
    ELSE IF cp < 2048 THEN <<192 + (cp \div 64), 128 + (cp % 64)>>
    ELSE IF cp < 65536
         THEN <<224 + (cp \div 4096), 128 + ((cp \div 64) % 64), 128 + (cp % 64)>>
    ELSE <<240 + (cp \div 262144), 128 + ((cp \div 4096) % 64),
           128 + ((cp \div 64) % 64), 128 + (cp % 64)>>

RECURSIVE Utf8Bytes(_)
Utf8Bytes(s) ==
    IF s = <<>> THEN <<>>
    ELSE Utf8OfCodePoint(Head(s)) \o Utf8Bytes(Tail(s))

\* s.encode('utf-8'): strict, so a lone surrogate raises UnicodeEncodeError
Utf8Encode(s) ==
    IF \E i \in 1..Len(s) : IsSurrogate(s[i])
    THEN [raised |-> TRUE, exc |-> "UnicodeEncodeError", bytes |-> <<>>]
    ELSE [raised |-> FALSE, exc |-> "", bytes |-> Utf8Bytes(s)]

IsCont(x) == x >= 128 /\ x <= 191

\* the range of a valid second byte after lead byte b0
SecondLo(b0) == IF b0 = 224 THEN 160 ELSE IF b0 = 240 THEN 144 ELSE 128

SecondHi(b0) == IF b0 = 237 THEN 159 ELSE IF b0 = 244 THEN 143 ELSE 191

IsSecond(b0, x) == x >= SecondLo(b0) /\ x <= SecondHi(b0)

\* decode from position i; an invalid or cut sequence is dropped
RECURSIVE Utf8DecodeFrom(_, _)
Utf8DecodeFrom(b, i) ==
    IF i > Len(b) THEN <<>>
    ELSE LET b0 == b[i]
             n  == Len(b)
         IN IF b0 < 128 THEN <<b0>> \o Utf8DecodeFrom(b, i + 1)
            ELSE IF b0 >= 194 /\ b0 <= 223 THEN
                IF i + 1 > n THEN <<>>
                ELSE IF ~IsCont(b[i + 1]) THEN Utf8DecodeFrom(b, i + 1)
                ELSE <<(b0 - 192) * 64 + (b[i + 1] - 128)>>
                     \o Utf8DecodeFrom(b, i + 2)
            ELSE IF b0 >= 224 /\ b0 <= 239 THEN
                IF i + 1 > n THEN <<>>
                ELSE IF ~IsSecond(b0, b[i + 1]) THEN Utf8DecodeFrom(b, i + 1)
                ELSE IF i + 2 > n THEN <<>>
                ELSE IF ~IsCont(b[i + 2]) THEN Utf8DecodeFrom(b, i + 2)
                ELSE <<(b0 - 224) * 4096 + (b[i + 1] - 128) * 64 + (b[i + 2] - 128)>>
                     \o Utf8DecodeFrom(b, i + 3)
            ELSE IF b0 >= 240 /\ b0 <= 244 THEN
                IF i + 1 > n THEN <<>>
                ELSE IF ~IsSecond(b0, b[i + 1]) THEN Utf8DecodeFrom(b, i + 1)
                ELSE IF i + 2 > n THEN <<>>
                ELSE IF ~IsCont(b[i + 2]) THEN Utf8DecodeFrom(b, i + 2)
                ELSE IF i + 3 > n THEN <<>>
                ELSE IF ~IsCont(b[i + 3]) THEN Utf8DecodeFrom(b, i + 3)
                ELSE <<(b0 - 240) * 262144 + (b[i + 1] - 128) * 4096
                       + (b[i + 2] - 128) * 64 + (b[i + 3] - 128)>>
                     \o Utf8DecodeFrom(b, i + 4)
            ELSE Utf8DecodeFrom(b, i + 1)

Utf8DecodeIgnore(b) == Utf8DecodeFrom(b, 1)

\* b.rstrip(b'\x00')
RECURSIVE RStripZero(_)
RStripZero(b) ==
    IF b = <<>> THEN <<>>
    ELSE IF b[Len(b)] = 0 THEN RStripZero(SubSeq(b, 1, Len(b) - 1))
    ELSE b

\* encoded.ljust(32, b'\x00')
LJustZero(b, w) == IF Len(b) >= w THEN b ELSE b \o Rep(0, w - Len(b))

(***************************************************************************)
(* The tag codec.                                                          *)
(***************************************************************************)
Returned(v) == [raised |-> FALSE, exc |-> "", val |-> v]

Raised(e) == [raised |-> TRUE, exc |-> e, val |-> <<>>]

bytes32_from_string(s) ==
    IF Len(s) = 0 THEN Returned(Rep(0, Width))
    ELSE LET e == Utf8Encode(s)
         IN IF e.raised THEN Raised(e.exc)
            ELSE Returned(LJustZero(Take(e.bytes, Width), Width))

\* a decoder that forgets to strip the padding
string_from_bytes32_NoStrip(b) == Utf8DecodeIgnore(b)

string_from_bytes32(b) == Utf8DecodeIgnore(RStripZero(b))

(***************************************************************************)
(* The state of a machine that is not the one running.                     *)
(***************************************************************************)
CodecIdle == cpc = "idle" /\ cs = <<>> /\ cb = <<>> /\ cdec = <<>>

LookupIdle ==
    /\ lpc = "idle"
    /\ largs = <<>>
    /\ lsum = <<>>
    /\ lfb = <<>>
    /\ lrpc = <<>>
    /\ lout = <<>>
    /\ lexit = 0

MyRepIdle ==
    /\ mpc = "idle"
    /\ margs = <<>>
    /\ mi = 0
    /\ mres = <<>>
    /\ mrpc = <<>>
    /\ mout = <<>>
    /\ mexit = 0

WriteIdle ==
    /\ inv = <<>>
    /\ ledger = <<>>
    /\ txcount = <<>>
    /\ txs = <<>>

(***************************************************************************)
(* SpecCodec: a str is encoded, and what was encoded is decoded.           *)
(***************************************************************************)
\* NUL, 'a', e-acute (2 bytes), euro (3 bytes), an emoji (4 bytes), and the
\* lone surrogate a non-UTF-8 argv byte 0xFF becomes under surrogateescape
CodePoints == {0, 97, 233, 8364, 128512, 56575}

CodecInputs ==
    {Rep(c, n) \o t : c \in CodePoints, n \in 0..MaxRep,
                      t \in SeqsUpTo(CodePoints, MaxSuffix)}

CodecInit ==
    /\ cpc = "start"
    /\ cs \in CodecInputs
    /\ cb = <<>>
    /\ cdec = <<>>
    /\ LookupIdle
    /\ MyRepIdle
    /\ WriteIdle

CodecEncode ==
    /\ cpc = "start"
    /\ LET r == bytes32_from_string(cs)
       IN IF r.raised
          THEN cpc' = "raised" /\ cb' = cb
          ELSE cpc' = "encoded" /\ cb' = r.val
    /\ UNCHANGED <<cs, cdec>>
    /\ UNCHANGED notCodecVars

CodecDecode ==
    /\ cpc = "encoded"
    /\ cpc' = "decoded"
    /\ cdec' = string_from_bytes32(cb)
    /\ UNCHANGED <<cs, cb>>
    /\ UNCHANGED notCodecVars

CodecNext == CodecEncode \/ CodecDecode

SpecCodec == CodecInit /\ [][CodecNext]_vars


(***************************************************************************)
(* Characters and messages.  str(e) is the sequence of the characters of   *)
(* the exception's message.                                                *)
(***************************************************************************)
UpperLetters ==
    <<"A", "B", "C", "D", "E", "F", "G", "H", "I", "J", "K", "L", "M", "N",
      "O", "P", "Q", "R", "S", "T", "U", "V", "W", "X", "Y", "Z">>

LowerLetters ==
    <<"a", "b", "c", "d", "e", "f", "g", "h", "i", "j", "k", "l", "m", "n",
      "o", "p", "q", "r", "s", "t", "u", "v", "w", "x", "y", "z">>

LowerChar(c) ==
    IF \E i \in 1..Len(UpperLetters) : UpperLetters[i] = c
    THEN LowerLetters[CHOOSE i \in 1..Len(UpperLetters) : UpperLetters[i] = c]
    ELSE c

\* str.lower()
Lower(s) == [i \in 1..Len(s) |-> LowerChar(s[i])]

\* needle in hay
Contains(hay, needle) ==
    \E i \in 1..(Len(hay) - Len(needle) + 1) :
        SubSeq(hay, i, i + Len(needle) - 1) = needle

StrRevert ==
    <<"r", "e", "v", "e", "r", "t">>

StrExecution ==
    <<"e", "x", "e", "c", "u", "t", "i", "o", "n">>

\* web3's ContractLogicError: 'execution reverted'
MsgExecutionReverted ==
    <<"e", "x", "e", "c", "u", "t", "i", "o", "n", " ", "r", "e", "v", "e",
      "r", "t", "e", "d">>

\* a development node's revert: 'VM Exception while processing transaction: revert'
MsgVmRevert ==
    <<"V", "M", " ", "E", "x", "c", "e", "p", "t", "i", "o", "n", " ", "w",
      "h", "i", "l", "e", " ", "p", "r", "o", "c", "e", "s", "s", "i", "n",
      "g", " ", "t", "r", "a", "n", "s", "a", "c", "t", "i", "o", "n", ":",
      " ", "r", "e", "v", "e", "r", "t">>

\* the revert data of an OpenEthereum node: 'Reverted 0x'
MsgReverted ==
    <<"R", "e", "v", "e", "r", "t", "e", "d", " ", "0", "x">>

\* the HTTP provider's read timeout: 'Read timed out. (read timeout=30)'
MsgReadTimedOut ==
    <<"R", "e", "a", "d", " ", "t", "i", "m", "e", "d", " ", "o", "u", "t",
      ".", " ", "(", "r", "e", "a", "d", " ", "t", "i", "m", "e", "o", "u",
      "t", "=", "3", "0", ")">>

\* a geth node's eth_call timeout: 'execution aborted (timeout = 5s)'
MsgExecutionAborted ==
    <<"e", "x", "e", "c", "u", "t", "i", "o", "n", " ", "a", "b", "o", "r",
      "t", "e", "d", " ", "(", "t", "i", "m", "e", "o", "u", "t", " ", "=",
      " ", "5", "s", ")">>

\* a response body that is not JSON: 'Expecting value: line 1 column 1 (char 0)'
MsgExpectingValue ==
    <<"E", "x", "p", "e", "c", "t", "i", "n", "g", " ", "v", "a", "l", "u",
      "e", ":", " ", "l", "i", "n", "e", " ", "1", " ", "c", "o", "l", "u",
      "m", "n", " ", "1", " ", "(", "c", "h", "a", "r", " ", "0", ")">>

\* the connection dropped during the call: 'Connection aborted.'
MsgConnectionAborted ==
    <<"C", "o", "n", "n", "e", "c", "t", "i", "o", "n", " ", "a", "b", "o",
      "r", "t", "e", "d", ".">>

\* What a failed contract call is (kind, which the program cannot see) and
\* what it says (msg, which is all the program looks at).
Failure(kind, msg) == [kind |-> kind, msg |-> msg]

RevertFailures ==
    {Failure("revert", m) : m \in {MsgExecutionReverted, MsgVmRevert, MsgReverted}}

ConnectivityFailures ==
    {Failure("timeout", MsgReadTimedOut), Failure("timeout", MsgExecutionAborted),
     Failure("malformed", MsgExpectingValue),
     Failure("connloss", MsgConnectionAborted)}

CallFailures == RevertFailures \cup ConnectivityFailures

\* the test of lines 274-275 and 397-398
IsRevertMessage(msg) ==
    LET error_str == Lower(msg)
    IN Contains(error_str, StrRevert) \/ Contains(error_str, StrExecution)

(***************************************************************************)
(* The chain registry, lines 34-67.                                        *)
(***************************************************************************)
\* the keys of CHAINS, in the order the dict holds them
ChainKeys == <<"base", "ethereum", "polygon", "monad", "bnb">>

ChainKeySet == {ChainKeys[i] : i \in 1..Len(ChainKeys)}

ChainName(k) ==
    CASE k = "base" -> "Base"
      [] k = "ethereum" -> "Ethereum"
      [] k = "polygon" -> "Polygon"
      [] k = "monad" -> "Monad"
      [] k = "bnb" -> "BNB Chain"

DEFAULT_CHAIN == "base"

\* args.chain when --chain is not given
NoChain == ""

\* args.chain or DEFAULT_CHAIN
ChainOf(args) == IF args.chain = NoChain THEN DEFAULT_CHAIN ELSE args.chain

\* the key and the rpc URL of each chain as characters, lines 35-64
Chars_base ==
    <<"b", "a", "s", "e">>

Rpc_base ==
    <<"h", "t", "t", "p", "s", ":", "/", "/", "m", "a", "i", "n", "n", "e",
      "t", ".", "b", "a", "s", "e", ".", "o", "r", "g">>

Chars_ethereum ==
    <<"e", "t", "h", "e", "r", "e", "u", "m">>

Rpc_ethereum ==
    <<"h", "t", "t", "p", "s", ":", "/", "/", "e", "t", "h", ".", "l", "l",
      "a", "m", "a", "r", "p", "c", ".", "c", "o", "m">>

Chars_polygon ==
    <<"p", "o", "l", "y", "g", "o", "n">>

Rpc_polygon ==
    <<"h", "t", "t", "p", "s", ":", "/", "/", "p", "o", "l", "y", "g", "o",
      "n", "-", "r", "p", "c", ".", "c", "o", "m">>

Chars_monad ==
    <<"m", "o", "n", "a", "d">>

Rpc_monad ==
    <<"h", "t", "t", "p", "s", ":", "/", "/", "r", "p", "c", ".", "m", "o",
      "n", "a", "d", ".", "x", "y", "z">>

Chars_bnb ==
    <<"b", "n", "b">>

Rpc_bnb ==
    <<"h", "t", "t", "p", "s", ":", "/", "/", "b", "s", "c", "-", "r", "p",
      "c", ".", "p", "u", "b", "l", "i", "c", "n", "o", "d", "e", ".", "c",
      "o", "m">>

ChainChars(k) ==
    CASE k = "base" -> Chars_base
      [] k = "ethereum" -> Chars_ethereum
      [] k = "polygon" -> Chars_polygon
      [] k = "monad" -> Chars_monad
      [] k = "bnb" -> Chars_bnb

ChainRpc(k) ==
    CASE k = "base" -> Rpc_base
      [] k = "ethereum" -> Rpc_ethereum
      [] k = "polygon" -> Rpc_polygon
      [] k = "monad" -> Rpc_monad
      [] k = "bnb" -> Rpc_bnb

StrFailedToConnect ==
    <<"F", "a", "i", "l", "e", "d", " ", "t", "o", " ", "c", "o", "n", "n",
      "e", "c", "t", " ", "t", "o", " ">>

StrRpc ==
    <<" ", "R", "P", "C", ":", " ">>

\* f"Failed to connect to {chain} RPC: {rpc_url}", line 196
ConnectionErrorMessage(chain) ==
    StrFailedToConnect \o ChainChars(chain) \o StrRpc \o ChainRpc(chain)

\* get_web3, lines 187-198: the key is looked up, then the endpoint is
\* probed; connected is what the probe w3.is_connected() answers
get_web3(chain, connected) ==
    IF chain \notin ChainKeySet
    THEN [raised |-> TRUE, exc |-> Failure("ValueError", <<>>), rpc |-> <<>>]
    ELSE IF ~connected
    THEN [raised |-> TRUE,
          exc |-> Failure("ConnectionError", ConnectionErrorMessage(chain)),
          rpc |-> <<"is_connected">>]
    ELSE [raised |-> FALSE, exc |-> Failure("", <<>>), rpc |-> <<"is_connected">>]

(***************************************************************************)
(* Addresses.  An agent_id argument is told by what validate_address looks *)
(* at: its prefix, its length, and whether to_checksum_address takes it.   *)
(***************************************************************************)
AgentId(prefix0x, length, hex) ==
    [prefix0x |-> prefix0x, length |-> length, hex |-> hex]

AgentIds ==
    {AgentId(TRUE, 42, TRUE), AgentId(FALSE, 42, TRUE), AgentId(TRUE, 40, TRUE),
     AgentId(TRUE, 42, FALSE)}

validate_address(address) ==
    IF ~address.prefix0x \/ address.length # 42 THEN Raised("ValueError")
    ELSE IF ~address.hex THEN Raised("ValueError")
    ELSE Returned(address)

(***************************************************************************)
(* What the process prints, and how it ends.                               *)
(***************************************************************************)
Line(stream, what, data) == [stream |-> stream, what |-> what, data |-> data]

\* an exception no handler catches: the interpreter prints the traceback to
\* stderr and the process exits with status 1
Traceback(exc) == Line("stderr", "Traceback", exc)

(***************************************************************************)
(* The ledger's answers.                                                   *)
(***************************************************************************)
\* getSummary: (totalScore, feedbackCount, averageScore)
Summaries == {<<0, 0, 0>>, <<80, 1, 80>>, <<270, 3, 90>>}

SummaryResponses ==
    {Returned(s) : s \in Summaries} \cup {Raised(f) : f \in CallFailures}

Slot(b) == LJustZero(b, Width)

TagEmpty == Slot(<<>>)

\* "fast", "reliable", "cheap", "kind", "safe", "wise"
TagFast == Slot(<<102, 97, 115, 116>>)

TagReliable == Slot(<<114, 101, 108, 105, 97, 98, 108, 101>>)

TagCheap == Slot(<<99, 104, 101, 97, 112>>)

TagKind == Slot(<<107, 105, 110, 100>>)

TagSafe == Slot(<<115, 97, 102, 101>>)

TagWise == Slot(<<119, 105, 115, 101>>)

\* a slot that is no UTF-8 at all, and "fast" followed by a stray byte
TagJunk == Slot(<<255, 254>>)

TagFastJunk == Slot(<<102, 97, 115, 116, 255>>)

\* reviewers, as checksummed address text
AddrAlice == <<"0", "x", "A", "b", "5", "8">>

AddrBob == <<"0", "x", "C", "d", "2", "F">>

\* a record as readFeedback and readAllFeedback return it:
\* (reviewer, score, tag1, tag2, timestamp, revoked)
Feedback(reviewer, score, tag1, tag2, revoked) ==
    <<reviewer, score, tag1, tag2, 1700000000, revoked>>

\* the records a ledger's list is made of
FeedbackPool ==
    {Feedback(AddrAlice, 80, TagFast, TagEmpty, FALSE),
     Feedback(AddrBob, 90, TagReliable, TagFast, FALSE),
     Feedback(AddrAlice, 100, TagEmpty, TagEmpty, FALSE),
     Feedback(AddrBob, 70, TagReliable, TagCheap, TRUE),
     Feedback(AddrAlice, 60, TagCheap, TagKind, FALSE),
     Feedback(AddrBob, 50, TagSafe, TagWise, FALSE),
     Feedback(AddrBob, 30, TagJunk, TagFastJunk, FALSE)}

FeedbackLists == SeqsUpTo(FeedbackPool, MaxFeedback)

FeedbackResponses ==
    {Returned(l) : l \in FeedbackLists} \cup {Raised(f) : f \in CallFailures}

(***************************************************************************)
(* cmd_lookup, lines 262-312.                                              *)
(***************************************************************************)
\* how many tags lookup prints
TopTags == 5

\* a dict is the sequence of its (key, value) items in insertion order
DictHas(d, k) == \E i \in 1..Len(d) : d[i][1] = k

DictGet(d, k, default) ==
    IF DictHas(d, k) THEN d[CHOOSE i \in 1..Len(d) : d[i][1] = k][2] ELSE default

DictSet(d, k, v) ==
    IF DictHas(d, k)
    THEN [i \in 1..Len(d) |-> IF d[i][1] = k THEN <<k, v>> ELSE d[i]]
    ELSE Append(d, <<k, v>>)

\* tag_counts[tag] = tag_counts.get(tag, 0) + 1, when tag is not empty
CountTag(tag_counts, tag) ==
    IF tag # <<>> THEN DictSet(tag_counts, tag, DictGet(tag_counts, tag, 0) + 1)
    ELSE tag_counts

\* a loop body that counts the tags of revoked records too
TallyOneWithRevoked(tag_counts, fb) ==
    LET tag1 == string_from_bytes32(fb[3])
        tag2 == string_from_bytes32(fb[4])
    IN CountTag(CountTag(tag_counts, tag1), tag2)

\* one pass of the loop body of lines 295-305
TallyOne(tag_counts, fb) ==
    IF fb[6] THEN tag_counts
    ELSE LET tag1 == string_from_bytes32(fb[3])
             tag2 == string_from_bytes32(fb[4])
         IN CountTag(CountTag(tag_counts, tag1), tag2)

\* the loop of lines 295-305 over all_feedback
RECURSIVE TallyTags(_, _)
TallyTags(all_feedback, tag_counts) ==
    IF all_feedback = <<>> THEN tag_counts
    ELSE TallyTags(Tail(all_feedback), TallyOne(tag_counts, Head(all_feedback)))

\* where a stable sort by descending count puts item x among sorted items
RECURSIVE InsertByCount(_, _)
InsertByCount(sorted, x) ==
    IF sorted = <<>> THEN <<x>>
    ELSE IF Head(sorted)[2] >= x[2]
         THEN <<Head(sorted)>> \o InsertByCount(Tail(sorted), x)
         ELSE <<x>> \o sorted

\* sorted(tag_counts.items(), key=lambda x: -x[1]): stable
RECURSIVE SortedByCount(_)
SortedByCount(items) ==
    IF items = <<>> THEN <<>>
    ELSE InsertByCount(SortedByCount(SubSeq(items, 1, Len(items) - 1)),
                       items[Len(items)])

\* the lines of 293-310 for a list the call returned
TagLines(all_feedback) ==
    LET tag_counts == TallyTags(all_feedback, <<>>)
    IN IF tag_counts # <<>>
       THEN <<Line("stdout", "Tags", Take(SortedByCount(tag_counts), TopTags))>>
       ELSE <<>>

LookupArgs == [agent_id : AgentIds, chain : {NoChain, "polygon", "bnb"}]

LookupInit ==
    /\ lpc = "start"
    /\ largs \in LookupArgs
    /\ lsum = <<>>
    /\ lfb = <<>>
    /\ lrpc = <<>>
    /\ lout = <<>>
    /\ lexit = 0
    /\ CodecIdle
    /\ MyRepIdle
    /\ WriteIdle

\* lines 264-265: validate_address raises ValueError, which nothing catches
LookupBegin ==
    /\ lpc = "start"
    /\ LET agent == validate_address(largs.agent_id)
       IN IF agent.raised
          THEN /\ lout' = Append(lout, Traceback(agent.exc))
               /\ lexit' = 1
               /\ lpc' = "done"
          ELSE /\ lpc' = "connect"
               /\ UNCHANGED <<lout, lexit>>
    /\ UNCHANGED <<largs, lsum, lfb, lrpc>>
    /\ UNCHANGED notLookupVars

\* lines 267-268, get_web3 (187-198): the liveness probe answers or not
LookupConnect ==
    /\ lpc = "connect"
    /\ \E connected \in BOOLEAN :
        LET w3 == get_web3(ChainOf(largs), connected)
        IN /\ lrpc' = lrpc \o w3.rpc
           /\ IF w3.raised
              THEN /\ lout' = Append(lout, Traceback(w3.exc.kind))
                   /\ lexit' = 1
                   /\ lpc' = "done"
              ELSE /\ lpc' = "summary"
                   /\ UNCHANGED <<lout, lexit>>
    /\ UNCHANGED <<largs, lsum, lfb>>
    /\ UNCHANGED notLookupVars

\* the head of the report, lines 281-282
LookupHead(args) ==
    <<Line("stdout", "Agent", args.agent_id),
      Line("stdout", "Chain", <<ChainOf(args), ChainName(ChainOf(args))>>)>>

\* a summary step that goes on to the detailed fetch whatever the count
LookupSummaryFetchesAlways ==
    /\ lpc = "summary"
    /\ \E r \in SummaryResponses :
        /\ lrpc' = Append(lrpc, "getSummary")
        /\ lsum' = r
        /\ IF r.raised /\ ~IsRevertMessage(r.exc.msg)
           THEN /\ lout' = Append(lout, Line("stderr", "Error querying reputation",
                                            r.exc.msg))
                /\ lexit' = 1
                /\ lpc' = "done"
           ELSE LET summary == IF r.raised THEN <<0, 0, 0>> ELSE r.val
                    feedback_count == summary[2]
                    avg_score == summary[3]
                IN /\ lout' = lout \o LookupHead(largs)
                              \o <<IF feedback_count = 0
                                   THEN Line("stdout", "Score: No feedback yet", <<>>)
                                   ELSE Line("stdout", "Score",
                                             <<avg_score, feedback_count>>)>>
                   /\ lpc' = "detail"
                   /\ lexit' = lexit
    /\ UNCHANGED <<largs, lfb>>
    /\ UNCHANGED notLookupVars

\* lines 270-288: the summary call, its except clause, and the report
LookupSummary ==
    /\ lpc = "summary"
    /\ \E r \in SummaryResponses :
        /\ lrpc' = Append(lrpc, "getSummary")
        /\ lsum' = r
        /\ IF r.raised /\ ~IsRevertMessage(r.exc.msg)
           THEN /\ lout' = Append(lout, Line("stderr", "Error querying reputation",
                                            r.exc.msg))
                /\ lexit' = 1
                /\ lpc' = "done"
           ELSE LET summary == IF r.raised THEN <<0, 0, 0>> ELSE r.val
                    feedback_count == summary[2]
                    avg_score == summary[3]
                IN IF feedback_count = 0
                   THEN /\ lout' = lout \o LookupHead(largs)
                                   \o <<Line("stdout", "Score: No feedback yet", <<>>)>>
                        /\ lexit' = 0
                        /\ lpc' = "done"
                   ELSE /\ lout' = lout \o LookupHead(largs)
                                   \o <<Line("stdout", "Score",
                                             <<avg_score, feedback_count>>)>>
                        /\ lpc' = "detail"
                        /\ lexit' = lexit
    /\ UNCHANGED <<largs, lfb>>
    /\ UNCHANGED notLookupVars

\* a detailed fetch whose failure ends the command like a failed summary
LookupDetailFatal ==
    /\ lpc = "detail"
    /\ \E r \in FeedbackResponses :
        /\ lrpc' = Append(lrpc, "readAllFeedback")
        /\ lfb' = r
        /\ lout' = IF r.raised
                   THEN Append(lout, Line("stderr", "Error querying reputation",
                                          r.exc.msg))
                   ELSE lout \o TagLines(r.val)
        /\ lexit' = IF r.raised THEN 1 ELSE 0
    /\ lpc' = "done"
    /\ UNCHANGED <<largs, lsum>>
    /\ UNCHANGED notLookupVars

\* lines 290-312: the detailed fetch; whatever it raises is passed over
LookupDetail ==
    /\ lpc = "detail"
    /\ \E r \in FeedbackResponses :
        /\ lrpc' = Append(lrpc, "readAllFeedback")
        /\ lfb' = r
        /\ lout' = IF r.raised THEN lout ELSE lout \o TagLines(r.val)
    /\ lexit' = 0
    /\ lpc' = "done"
    /\ UNCHANGED <<largs, lsum>>
    /\ UNCHANGED notLookupVars

LookupNext == LookupBegin \/ LookupConnect \/ LookupSummary \/ LookupDetail

SpecLookup == LookupInit /\ [][LookupNext]_vars

(***************************************************************************)
(* cmd_my_rep, lines 380-401.                                              *)
(***************************************************************************)
\* what the query of one chain does: the probe of get_web3 answers or not,
\* and when it does, getSummary returns or raises
ChainResponses ==
    {[connected |-> FALSE, summary |-> Returned(<<0, 0, 0>>)]}
    \cup {[connected |-> TRUE, summary |-> r] : r \in SummaryResponses}

\* lines 387-401 for one chain: what the try block raises, if anything
MyRepRaised(chain_name, resp) ==
    LET w3 == get_web3(chain_name, resp.connected)
    IN IF w3.raised THEN Raised(w3.exc)
       ELSE IF resp.summary.raised THEN Raised(resp.summary.exc)
       ELSE Returned(resp.summary.val)

\* a classification that looks for 'revert' alone
MyRepLineRevertOnly(chain_name, resp) ==
    LET r == MyRepRaised(chain_name, resp)
        name == ChainName(chain_name)
    IN IF r.raised
       THEN IF Contains(Lower(r.exc.msg), StrRevert)
            THEN Line("stdout", "No feedback", <<name>>)
            ELSE Line("stdout", "Error", <<name, r.exc.msg>>)
       ELSE IF r.val[2] > 0
            THEN Line("stdout", "Reviews", <<name, r.val[3], r.val[2]>>)
            ELSE Line("stdout", "No feedback", <<name>>)

\* the line of lines 392-401 for one chain
MyRepLine(chain_name, resp) ==
    LET r == MyRepRaised(chain_name, resp)
        name == ChainName(chain_name)
    IN IF r.raised
       THEN IF IsRevertMessage(r.exc.msg)
            THEN Line("stdout", "No feedback", <<name>>)
            ELSE Line("stdout", "Error", <<name, r.exc.msg>>)
       ELSE IF r.val[2] > 0
            THEN Line("stdout", "Reviews", <<name, r.val[3], r.val[2]>>)
            ELSE Line("stdout", "No feedback", <<name>>)

\* the RPC calls of lines 388-390 for one chain
MyRepCalls(chain_name, resp) ==
    LET w3 == get_web3(chain_name, resp.connected)
    IN [i \in 1..Len(w3.rpc) |-> <<chain_name, w3.rpc[i]>>]
       \o (IF w3.raised THEN <<>> ELSE <<<<chain_name, "getSummary">>>>)

MyRepInit ==
    /\ mpc = "start"
    /\ margs \in [agent_id : AgentIds]
    /\ mi = 0
    /\ mres = <<>>
    /\ mrpc = <<>>
    /\ mout = <<>>
    /\ mexit = 0
    /\ CodecIdle
    /\ LookupIdle
    /\ WriteIdle

\* lines 382-384
MyRepBegin ==
    /\ mpc = "start"
    /\ LET agent == validate_address(margs.agent_id)
       IN IF agent.raised
          THEN /\ mout' = Append(mout, Traceback(agent.exc))
               /\ mexit' = 1
               /\ mpc' = "done"
               /\ mi' = mi
          ELSE /\ mout' = Append(mout, Line("stdout", "Reputation for",
                                            margs.agent_id))
               /\ mpc' = "chains"
               /\ mi' = 1
               /\ mexit' = mexit
    /\ UNCHANGED <<margs, mres, mrpc>>
    /\ UNCHANGED notMyRepVars

\* one pass of the loop of lines 386-401; after the last the command returns
MyRepChain ==
    /\ mpc = "chains"
    /\ \E resp \in ChainResponses :
        /\ mres' = Append(mres, resp)
        /\ mrpc' = mrpc \o MyRepCalls(ChainKeys[mi], resp)
        /\ mout' = Append(mout, MyRepLine(ChainKeys[mi], resp))
    /\ mi' = mi + 1
    /\ mpc' = IF mi = Len(ChainKeys) THEN "done" ELSE "chains"
    /\ mexit' = 0
    /\ UNCHANGED margs
    /\ UNCHANGED notMyRepVars

MyRepNext == MyRepBegin \/ MyRepChain

SpecMyRep == MyRepInit /\ [][MyRepNext]_vars

(***************************************************************************)
(* The write commands cmd_give (lines 315-377) and cmd_revoke (432-493).   *)
(* An invocation is one run of the process; the ledger, the transaction    *)
(* counts and the transactions broadcast are the chain's.                  *)
(***************************************************************************)
\* the same address as AddrAlice in another letter case
AddrAliceLower == <<"0", "x", "a", "b", "5", "8">>

\* the environment: ERC8004_MNEMONIC and ERC8004_PRIVATE_KEY, "" when unset
Envs ==
    {[mnemonic |-> "", private_key |-> ""],
     [mnemonic |-> "words", private_key |-> ""],
     [mnemonic |-> "", private_key |-> "0xkey"],
     [mnemonic |-> "words", private_key |-> "key"]}

\* a loader that falls back on an account of its own when nothing is set
get_wallet_Fallback(env) ==
    IF env.mnemonic # "" THEN [none |-> FALSE, address |-> AddrAlice]
    ELSE [none |-> FALSE, address |-> AddrBob]

\* get_wallet, lines 209-223: the mnemonic wins over the key; the address
\* of the account each credential gives
get_wallet(env) ==
    IF env.mnemonic # "" THEN [none |-> FALSE, address |-> AddrAlice]
    ELSE IF env.private_key # "" THEN [none |-> FALSE, address |-> AddrBob]
    ELSE [none |-> TRUE, address |-> <<>>]

\* a range check that forgets the lower end
ScoreInRangeUpper(score) == score <= 100

\* not 0 <= score <= 100 is false, line 321
ScoreInRange(score) == 0 <= score /\ score <= 100

\* a comparison that minds the letter case
IsReviewerExact(reviewer, address) == reviewer = address

\* reviewer.lower() != wallet.address.lower() is false, line 451
IsReviewer(reviewer, address) == Lower(reviewer) = Lower(address)

\* web3's TimeExhausted: 'is not in the chain after 120 seconds'
MsgTimeExhausted ==
    <<"i", "s", " ", "n", "o", "t", " ", "i", "n", " ", "t", "h", "e", " ",
      "c", "h", "a", "i", "n", " ", "a", "f", "t", "e", "r", " ", "1", "2",
      "0", " ", "s", "e", "c", "o", "n", "d", "s">>

\* the failures of a call to the node other than a refusal by the contract
NodeFailures ==
    {Failure("timeout", MsgReadTimedOut), Failure("connloss", MsgConnectionAborted)}

\* a call the contract refuses
RevertFailure == Failure("revert", MsgExecutionReverted)

\* wait_for_transaction_receipt(tx_hash, timeout=120) gave up
TimeExhausted == Failure("TimeExhausted", MsgTimeExhausted)

\* wallet.sign_transaction refused the transaction
SignFailure == Failure("TypeError", <<>>)

NoFailure == Failure("", <<>>)

\* the arguments of either command; give reads score, tag1 and tag2, revoke
\* reads feedback_index
WriteArgs(agent_id, score, tag1, tag2, feedback_index) ==
    [agent_id |-> agent_id, score |-> score, tag1 |-> tag1, tag2 |-> tag2,
     feedback_index |-> feedback_index, chain |-> NoChain]

\* --tag1 absent, "fast", and a str that has no UTF-8 encoding
TagArgs == {<<>>, <<102, 97, 115, 116>>, <<56575>>}

GiveArgs ==
    {WriteArgs(a, s, t1, <<>>, 0) :
        a \in AgentIds, s \in {-1, 0, 100, 101, 150}, t1 \in TagArgs}

RevokeArgs == {WriteArgs(a, 0, <<>>, <<>>, ix) : a \in AgentIds, ix \in 0..MaxLedger}

\* an invocation as the process starts
Invocation(cmd, args, env) ==
    [cmd |-> cmd, args |-> args, env |-> env, pc |-> "begin",
     address |-> <<>>,           \* wallet.address
     read |-> FALSE,             \* readFeedback returned
     feedback |-> <<>>,          \* what it returned
     nonce |-> 0, gas_price |-> 0, gas |-> 0,
     signed |-> FALSE,           \* sign_transaction returned
     sent |-> FALSE,             \* send_raw_transaction returned
     tx_hash |-> 0,
     status |-> 0,               \* receipt['status'], once a receipt came
     calls |-> <<>>,             \* the calls made, in order
     raised |-> NoFailure,       \* what the except clause caught
     out |-> <<>>,               \* the lines printed
     exit |-> 0]                 \* the exit status, once pc = "done"

Invocations ==
    {Invocation("give", a, e) : a \in GiveArgs, e \in Envs}
    \cup {Invocation("revoke", a, e) : a \in RevokeArgs, e \in Envs}

\* the records a ledger holds when the command starts
LedgerPool ==
    {Feedback(r, 80, TagFast, TagEmpty, v) :
        r \in {AddrAlice, AddrAliceLower, AddrBob}, v \in BOOLEAN}

WalletAddresses == {AddrAlice, AddrBob}

\* the price eth.gas_price answers and the gas estimate_gas answers
GasPrice == 3

GasEstimate == 50000

WriteInit ==
    /\ inv \in [{1} -> Invocations]
    /\ ledger \in SeqsUpTo(LedgerPool, MaxLedger)
    /\ txcount = [a \in WalletAddresses |-> 0]
    /\ txs = <<>>
    /\ CodecIdle
    /\ LookupIdle
    /\ MyRepIdle

\* the process ends: lines are printed and the exit status is set
Finish(i, lines, code) ==
    [i EXCEPT !.out = i.out \o lines, !.exit = code, !.pc = "done"]

Call(i, name) == [i EXCEPT !.calls = Append(i.calls, name)]

\* the line of the except clause, 375-377 and 491-493
ExceptLine(cmd, e) ==
    Line("stderr",
         IF cmd = "give" THEN "Error submitting feedback"
         ELSE "Error revoking feedback",
         e.msg)

\* a handler that lets the failed step be made again
ExceptRetry(i, e) == [i EXCEPT !.raised = e, !.out = Append(i.out, ExceptLine(i.cmd, e))]

\* a handler that reports the failure and ends with status 0
ExceptQuiet(i, e) == Finish([i EXCEPT !.raised = e], <<ExceptLine(i.cmd, e)>>, 0)

\* except Exception as e: print and sys.exit(1)
Except(i, e) == Finish([i EXCEPT !.raised = e], <<ExceptLine(i.cmd, e)>>, 1)

\* lines 317-328 and 434-441: the checks made before anything is connected
BeginOutcome(i) ==
    LET agent == validate_address(i.args.agent_id)
        wallet == get_wallet(i.env)
    IN IF agent.raised THEN Finish(i, <<Traceback(agent.exc)>>, 1)
       ELSE IF i.cmd = "give" /\ ~ScoreInRange(i.args.score)
       THEN Finish(i, <<Line("stderr", "Error: Score must be between 0 and 100",
                             <<>>)>>, 1)
       ELSE IF wallet.none
       THEN Finish(i, <<Line("stderr", "Error: Wallet not configured", <<>>)>>, 1)
       ELSE [i EXCEPT !.address = wallet.address, !.pc = "connect"]

Begin(p) ==
    /\ inv[p].pc = "begin"
    /\ inv' = [inv EXCEPT ![p] = BeginOutcome(inv[p])]
    /\ UNCHANGED <<ledger, txcount, txs>>
    /\ UNCHANGED notWriteVars

\* lines 330-334 and 443-444: get_web3, which nothing catches, and for give
\* the two tags, whose encoding nothing catches either
ConnectOutcome(i, connected) ==
    LET w3 == get_web3(ChainOf(i.args), connected)
        j == [i EXCEPT !.calls = i.calls \o w3.rpc]
        tag1 == bytes32_from_string(i.args.tag1)
        tag2 == bytes32_from_string(i.args.tag2)
    IN IF w3.raised THEN Finish(j, <<Traceback(w3.exc.kind)>>, 1)
       ELSE IF i.cmd = "revoke" THEN [j EXCEPT !.pc = "read"]
       ELSE IF tag1.raised THEN Finish(j, <<Traceback(tag1.exc)>>, 1)
       ELSE IF tag2.raised THEN Finish(j, <<Traceback(tag2.exc)>>, 1)
       ELSE [j EXCEPT !.pc = "nonce"]

Connect(p) ==
    /\ inv[p].pc = "connect"
    /\ \E connected \in BOOLEAN :
        inv' = [inv EXCEPT ![p] = ConnectOutcome(inv[p], connected)]
    /\ UNCHANGED <<ledger, txcount, txs>>
    /\ UNCHANGED notWriteVars

\* readFeedback(agent, index).call(): the record, a refusal when the index
\* is out of range, or a failure of the node
ReadAnswers(index) ==
    (IF index + 1 \in 1..Len(ledger) THEN {Returned(ledger[index + 1])}
     ELSE {Raised(RevertFailure)})
    \cup {Raised(f) : f \in NodeFailures}

\* a check that looks at the revoked flag before the reviewer
AuthorizeOutcomeRevokedFirst(i, feedback) ==
    LET reviewer == feedback[1]
    IN IF feedback[6]
       THEN Finish(i, <<Line("stdout", "Feedback is already revoked",
                             <<i.args.feedback_index>>)>>, 0)
       ELSE IF ~IsReviewer(reviewer, i.address)
       THEN Finish(i, <<Line("stderr", "Error: Feedback was not given by your wallet",
                             <<i.args.feedback_index>>),
                        Line("stdout", "Reviewer", reviewer),
                        Line("stdout", "Your address", i.address)>>, 1)
       ELSE [i EXCEPT !.pc = "nonce"]

\* a check that does not look at the revoked flag
AuthorizeOutcomeNoRevokedCheck(i, feedback) ==
    LET reviewer == feedback[1]
    IN IF ~IsReviewer(reviewer, i.address)
       THEN Finish(i, <<Line("stderr", "Error: Feedback was not given by your wallet",
                             <<i.args.feedback_index>>),
                        Line("stdout", "Reviewer", reviewer),
                        Line("stdout", "Your address", i.address)>>, 1)
       ELSE [i EXCEPT !.pc = "nonce"]

\* lines 449-459, once readFeedback returned feedback
AuthorizeOutcome(i, feedback) ==
    LET reviewer == feedback[1]
    IN IF ~IsReviewer(reviewer, i.address)
       THEN Finish(i, <<Line("stderr", "Error: Feedback was not given by your wallet",
                             <<i.args.feedback_index>>),
                        Line("stdout", "Reviewer", reviewer),
                        Line("stdout", "Your address", i.address)>>, 1)
       ELSE IF feedback[6]
       THEN Finish(i, <<Line("stdout", "Feedback is already revoked",
                             <<i.args.feedback_index>>)>>, 0)
       ELSE [i EXCEPT !.pc = "nonce"]

\* lines 446-459
ReadFeedback(p) ==
    /\ inv[p].pc = "read"
    /\ \E r \in ReadAnswers(inv[p].args.feedback_index) :
        LET i == Call(inv[p], "readFeedback")
        IN inv' = [inv EXCEPT ![p] =
                     IF r.raised THEN Except(i, r.exc)
                     ELSE AuthorizeOutcome([i EXCEPT !.read = TRUE,
                                                     !.feedback = r.val], r.val)]
    /\ UNCHANGED <<ledger, txcount, txs>>
    /\ UNCHANGED notWriteVars

\* a query that counts the wallet's pending transactions too
GetNoncePending(p) ==
    /\ inv[p].pc = "nonce"
    /\ \E r \in {Returned(txcount[inv[p].address]
                          + Cardinality({h \in 1..Len(txs) :
                                           /\ txs[h].from = inv[p].address
                                           /\ txs[h].state = "pending"}))}
                \cup {Raised(f) : f \in NodeFailures} :
        LET i == Call(inv[p], "get_transaction_count")
        IN inv' = [inv EXCEPT ![p] =
                     IF r.raised THEN Except(i, r.exc)
                     ELSE [i EXCEPT !.nonce = r.val, !.pc = "gas_price"]]
    /\ UNCHANGED <<ledger, txcount, txs>>
    /\ UNCHANGED notWriteVars

\* lines 338 and 462: w3.eth.get_transaction_count(wallet.address)
GetNonce(p) ==
    /\ inv[p].pc = "nonce"
    /\ \E r \in {Returned(txcount[inv[p].address])}
                \cup {Raised(f) : f \in NodeFailures} :
        LET i == Call(inv[p], "get_transaction_count")
        IN inv' = [inv EXCEPT ![p] =
                     IF r.raised THEN Except(i, r.exc)
                     ELSE [i EXCEPT !.nonce = r.val, !.pc = "gas_price"]]
    /\ UNCHANGED <<ledger, txcount, txs>>
    /\ UNCHANGED notWriteVars

\* a build that signs without estimating the gas
GetGasPriceThenSign(p) ==
    /\ inv[p].pc = "gas_price"
    /\ \E r \in {Returned(GasPrice)} \cup {Raised(f) : f \in NodeFailures} :
        LET i == Call(inv[p], "gas_price")
        IN inv' = [inv EXCEPT ![p] =
                     IF r.raised THEN Except(i, r.exc)
                     ELSE [i EXCEPT !.gas_price = r.val, !.pc = "sign"]]
    /\ UNCHANGED <<ledger, txcount, txs>>
    /\ UNCHANGED notWriteVars

\* lines 339-348 and 463-470: w3.eth.gas_price, then the transaction is
\* built from what is held
GetGasPrice(p) ==
    /\ inv[p].pc = "gas_price"
    /\ \E r \in {Returned(GasPrice)} \cup {Raised(f) : f \in NodeFailures} :
        LET i == Call(inv[p], "gas_price")
        IN inv' = [inv EXCEPT ![p] =
                     IF r.raised THEN Except(i, r.exc)
                     ELSE [i EXCEPT !.gas_price = r.val, !.pc = "estimate"]]
    /\ UNCHANGED <<ledger, txcount, txs>>
    /\ UNCHANGED notWriteVars

\* lines 351 and 472: w3.eth.estimate_gas(tx); the node refuses a call the
\* contract would refuse
EstimateGas(p) ==
    /\ inv[p].pc = "estimate"
    /\ \E r \in {Returned(GasEstimate), Raised(RevertFailure)}
                \cup {Raised(f) : f \in NodeFailures} :
        LET i == Call(inv[p], "estimate_gas")
        IN inv' = [inv EXCEPT ![p] =
                     IF r.raised THEN Except(i, r.exc)
                     ELSE [i EXCEPT !.gas = r.val, !.pc = "sign"]]
    /\ UNCHANGED <<ledger, txcount, txs>>
    /\ UNCHANGED notWriteVars

\* lines 354 and 474: wallet.sign_transaction(tx)
Sign(p) ==
    /\ inv[p].pc = "sign"
    /\ \E r \in {Returned(TRUE), Raised(SignFailure)} :
        LET i == Call(inv[p], "sign_transaction")
        IN inv' = [inv EXCEPT ![p] =
                     IF r.raised THEN Except(i, r.exc)
                     ELSE [i EXCEPT !.signed = TRUE, !.pc = "send"]]
    /\ UNCHANGED <<ledger, txcount, txs>>
    /\ UNCHANGED notWriteVars

\* the transaction an invocation signed
TxOf(p, i) ==
    [by |-> p, from |-> i.address, nonce |-> i.nonce, gasPrice |-> i.gas_price,
     gas |-> i.gas,
     call |-> IF i.cmd = "give"
              THEN <<"giveFeedback", i.args.score,
                     bytes32_from_string(i.args.tag1).val,
                     bytes32_from_string(i.args.tag2).val>>
              ELSE <<"revokeFeedback", i.args.feedback_index>>,
     state |-> "pending", gasUsed |-> 0]

\* lines 355 and 475: w3.eth.send_raw_transaction; the node takes the
\* transaction and answers its hash, or the call fails and nothing is taken
Send(p) ==
    /\ inv[p].pc = "send"
    /\ \E ok \in BOOLEAN, f \in NodeFailures :
        LET i == Call(inv[p], "send_raw_transaction")
        IN IF ok
           THEN /\ txs' = Append(txs, TxOf(p, i))
                /\ inv' = [inv EXCEPT ![p] =
                             [i EXCEPT !.sent = TRUE, !.tx_hash = Len(txs) + 1,
                                       !.out = Append(i.out,
                                                      Line("stdout", "Submitting",
                                                           <<>>)),
                                       !.pc = "wait"]]
           ELSE /\ txs' = txs
                /\ inv' = [inv EXCEPT ![p] = Except(i, f)]
    /\ UNCHANGED <<ledger, txcount>>
    /\ UNCHANGED notWriteVars

\* what the contract does with a call it executes: giveFeedback appends a
\* record; revokeFeedback sets the revoked flag of a record of the sender
\* that is not revoked yet and is refused otherwise
ContractAccepts(tx) ==
    IF tx.call[1] = "giveFeedback" THEN TRUE
    ELSE /\ tx.call[2] + 1 \in 1..Len(ledger)
         /\ IsReviewer(ledger[tx.call[2] + 1][1], tx.from)
         /\ ~ledger[tx.call[2] + 1][6]

LedgerAfter(tx) ==
    IF tx.call[1] = "giveFeedback"
    THEN Append(ledger, Feedback(tx.from, tx.call[2], tx.call[3], tx.call[4], FALSE))
    ELSE [ledger EXCEPT ![tx.call[2] + 1] = [@ EXCEPT ![6] = TRUE]]

\* the chain includes a pending transaction whose nonce is the sender's
\* transaction count: the call takes effect, or the contract refuses it
\* (as it may refuse a giveFeedback for reasons of its own)
Mine ==
    /\ \E h \in 1..Len(txs), refused \in BOOLEAN :
        LET tx == txs[h]
            ok == ContractAccepts(tx) /\ ~(refused /\ tx.call[1] = "giveFeedback")
        IN /\ tx.state = "pending"
           /\ tx.nonce = txcount[tx.from]
           /\ txs' = [txs EXCEPT ![h] = [tx EXCEPT !.state = IF ok THEN "success"
                                                            ELSE "reverted",
                                                  !.gasUsed = 40000]]
           /\ txcount' = [txcount EXCEPT ![tx.from] = @ + 1]
           /\ ledger' = IF ok THEN LedgerAfter(tx) ELSE ledger
    /\ UNCHANGED inv
    /\ UNCHANGED notWriteVars

\* a report that does not look at the receipt's status
ReceiptOutcomeAnyStatus(i, tx) ==
    Finish([i EXCEPT !.status = IF tx.state = "success" THEN 1 ELSE 0],
           <<Line("stdout",
                  IF i.cmd = "give" THEN "Feedback submitted" ELSE "Feedback revoked",
                  <<i.args.agent_id,
                    IF i.cmd = "give" THEN i.args.score ELSE i.args.feedback_index>>),
             Line("stdout", "Tx", i.tx_hash),
             Line("stdout", "Gas", tx.gasUsed * i.gas_price)>>, 0)

\* lines 361-373 and 480-489, for the receipt of a mined transaction
ReceiptOutcome(i, tx) ==
    IF tx.state = "success"
    THEN Finish([i EXCEPT !.status = 1],
                <<Line("stdout",
                       IF i.cmd = "give" THEN "Feedback submitted"
                       ELSE "Feedback revoked",
                       <<i.args.agent_id,
                         IF i.cmd = "give" THEN i.args.score
                         ELSE i.args.feedback_index>>),
                  Line("stdout", "Tx", i.tx_hash),
                  Line("stdout", "Gas", tx.gasUsed * i.gas_price)>>, 0)
    ELSE Finish([i EXCEPT !.status = 0],
                <<Line("stderr", "Transaction failed", i.tx_hash)>>, 1)

\* a wait without a timeout: it returns once the transaction is mined
WaitUntilMined(p) ==
    /\ inv[p].pc = "wait"
    /\ txs[inv[p].tx_hash].state # "pending"
    /\ LET i == Call(inv[p], "wait_for_transaction_receipt")
       IN inv' = [inv EXCEPT ![p] = ReceiptOutcome(i, txs[i.tx_hash])]
    /\ UNCHANGED <<ledger, txcount, txs>>
    /\ UNCHANGED notWriteVars

\* lines 359-373 and 478-489: w3.eth.wait_for_transaction_receipt with
\* timeout=120; the receipt of a mined transaction, TimeExhausted for one
\* that is still pending, or a failure of the node while polling
Wait(p) ==
    /\ inv[p].pc = "wait"
    /\ \E f \in NodeFailures \cup {NoFailure} :
        LET i == Call(inv[p], "wait_for_transaction_receipt")
            tx == txs[i.tx_hash]
        IN inv' = [inv EXCEPT ![p] =
                     IF f # NoFailure THEN Except(i, f)
                     ELSE IF tx.state = "pending" THEN Except(i, TimeExhausted)
                     ELSE ReceiptOutcome(i, tx)]
    /\ UNCHANGED <<ledger, txcount, txs>>
    /\ UNCHANGED notWriteVars

Next ==
    \/ \E p \in DOMAIN inv : Begin(p)
    \/ \E p \in DOMAIN inv : Connect(p)
    \/ \E p \in DOMAIN inv : ReadFeedback(p)
    \/ \E p \in DOMAIN inv : GetNonce(p)
    \/ \E p \in DOMAIN inv : GetGasPrice(p)
    \/ \E p \in DOMAIN inv : EstimateGas(p)
    \/ \E p \in DOMAIN inv : Sign(p)
    \/ \E p \in DOMAIN inv : Send(p)
    \/ \E p \in DOMAIN inv : Wait(p)
    \/ Mine

Spec == WriteInit /\ [][Next]_vars

\* a step of the process of invocation p
Step(p) ==
    \/ Begin(p)
    \/ Connect(p)
    \/ ReadFeedback(p)
    \/ GetNonce(p)
    \/ GetGasPrice(p)
    \/ EstimateGas(p)
    \/ Sign(p)
    \/ Send(p)
    \/ Wait(p)

\* a process that can take a step takes one: every call it makes returns
\* or raises.  Nothing is asked of the chain: a transaction may stay
\* pending for ever.
SpecLive == Spec /\ WF_vars(\E p \in DOMAIN inv : Step(p))

(***************************************************************************)
(* Revoke invocations run one after another: a caller that starts the      *)
(* next process once the one before has ended.                             *)
(***************************************************************************)
\* the arguments and the environment of the revokes of one sequence: a
\* valid agent, an index the ledger holds, the wallet of the mnemonic
SerialRevoke(ix) ==
    Invocation("revoke", WriteArgs(AgentId(TRUE, 42, TRUE), 0, <<>>, <<>>, ix),
               [mnemonic |-> "words", private_key |-> ""])

\* every invocation of the sequence is by the reviewer of the record at
\* the index, on the same agent and index; the other records of the ledger
\* are another reviewer's
SerialInit ==
    /\ ledger \in SeqsUpTo(LedgerPool, MaxLedger)
    /\ \E ix \in 0..(MaxLedger - 1) :
        /\ ix < Len(ledger)
        /\ IsReviewer(ledger[ix + 1][1], get_wallet(SerialRevoke(ix).env).address)
        /\ \A k \in 1..Len(ledger) :
            k # ix + 1 => ledger[k] = Feedback(AddrBob, 80, TagFast, TagEmpty, FALSE)
        /\ inv = [r \in 1..MaxRuns |-> SerialRevoke(ix)]
    /\ txcount = [a \in WalletAddresses |-> 0]
    /\ txs = <<>>
    /\ CodecIdle
    /\ LookupIdle
    /\ MyRepIdle

\* the process of invocation p starts once every earlier one has ended
SerialBegin(p) ==
    /\ \A q \in 1..(p - 1) : inv[q].pc = "done"
    /\ Begin(p)

SerialNext ==
    \/ \E p \in DOMAIN inv : SerialBegin(p)
    \/ \E p \in DOMAIN inv : Connect(p)
    \/ \E p \in DOMAIN inv : ReadFeedback(p)
    \/ \E p \in DOMAIN inv : GetNonce(p)
    \/ \E p \in DOMAIN inv : GetGasPrice(p)
    \/ \E p \in DOMAIN inv : EstimateGas(p)
    \/ \E p \in DOMAIN inv : Sign(p)
    \/ \E p \in DOMAIN inv : Send(p)
    \/ \E p \in DOMAIN inv : Wait(p)
    \/ Mine

SpecSerial == SerialInit /\ [][SerialNext]_vars

(***************************************************************************)
(* Two write invocations of one wallet running at once: two processes,     *)
(* which share nothing but the chain.                                      *)
(***************************************************************************)
\* a give and a revoke of index 0 with valid arguments, for the wallet of
\* env; the records of the ledger past index 0 are another reviewer's
ConcurrentInvocations(env) ==
    {Invocation("give", WriteArgs(AgentId(TRUE, 42, TRUE), 100, <<>>, <<>>, 0), env),
     Invocation("revoke", WriteArgs(AgentId(TRUE, 42, TRUE), 0, <<>>, <<>>, 0), env)}

ConcurrentInit ==
    /\ \E env \in {e \in Envs : ~get_wallet(e).none} :
        inv \in [{1, 2} -> ConcurrentInvocations(env)]
    /\ ledger \in SeqsUpTo(LedgerPool, MaxLedger)
    /\ \A k \in 2..Len(ledger) :
        ledger[k] = Feedback(AddrBob, 80, TagFast, TagEmpty, FALSE)
    /\ txcount = [a \in WalletAddresses |-> 0]
    /\ txs = <<>>
    /\ CodecIdle
    /\ LookupIdle
    /\ MyRepIdle

\* the steps of the two processes interleave in any order
SpecConcurrent == ConcurrentInit /\ [][Next]_vars

(***************************************************************************)
(* Claims about the tag codec (SpecCodec).                                 *)
(***************************************************************************)
\* the precondition of the round-trip law: cs has a UTF-8 encoding of at
\* most Width bytes that does not end in a zero byte
RoundTripInput ==
    /\ ~Utf8Encode(cs).raised
    /\ Len(Utf8Bytes(cs)) <= Width
    /\ (cs # <<>> => Utf8Bytes(cs)[Len(Utf8Bytes(cs))] # 0)

\* C9: for every str whose UTF-8 encoding is at most 32 bytes and does not
\* end in a zero byte, string_from_bytes32(bytes32_from_string(s)) = s; the
\* empty str encodes to 32 zero bytes and decodes to the empty str.
C9_RoundTrip ==
    /\ (cpc = "decoded" /\ RoundTripInput) => cdec = cs
    /\ (cpc \in {"encoded", "decoded"} /\ cs = <<>>) => cb = Rep(0, Width)
    /\ (cpc = "decoded" /\ cs = <<>>) => cdec = <<>>
    /\ (cpc = "raised") => ~RoundTripInput

\* a str of exactly 32 bytes made of multi-byte characters went through both
\* conversions and came back
C9_Witness ==
    /\ cpc = "decoded"
    /\ RoundTripInput
    /\ Len(Utf8Bytes(cs)) = Width
    /\ \E i \in 1..Len(cs) : cs[i] > 127
    /\ cdec = cs

\* the empty str went through both conversions
C9_WitnessEmpty == cpc = "decoded" /\ cs = <<>> /\ cdec = <<>>

\* C10: for every input str bytes32_from_string returns exactly 32 bytes and
\* never fails: the first 32 bytes of the encoding when that is longer, the
\* encoding followed by zero bytes only when it is shorter.
C10_EncodeTotal ==
    /\ cpc # "raised"
    /\ cpc \in {"encoded", "decoded"} =>
        /\ Len(cb) = Width
        /\ LET e == Utf8Bytes(cs)
           IN IF Len(e) >= Width
              THEN cb = SubSeq(e, 1, Width)
              ELSE /\ SubSeq(cb, 1, Len(e)) = e
                   /\ \A i \in (Len(e) + 1)..Width : cb[i] = 0

\* what holds of the code: the same shape for every str that has a UTF-8
\* encoding, and UnicodeEncodeError exactly for the others
EncodeShapeWhenEncodable ==
    /\ cpc = "raised" <=> (cpc # "start" /\ \E i \in 1..Len(cs) : IsSurrogate(cs[i])
                                         /\ cs # <<>>)
    /\ cpc \in {"encoded", "decoded"} =>
        /\ Len(cb) = Width
        /\ LET e == Utf8Bytes(cs)
           IN IF Len(e) >= Width
              THEN cb = SubSeq(e, 1, Width)
              ELSE /\ SubSeq(cb, 1, Len(e)) = e
                   /\ \A i \in (Len(e) + 1)..Width : cb[i] = 0

\* a 40-byte encoding was cut to its first 32 bytes
TruncationReached ==
    /\ cpc = "encoded"
    /\ Len(Utf8Bytes(cs)) = 40
    /\ cb = SubSeq(Utf8Bytes(cs), 1, Width)

(***************************************************************************)
(* Claims about cmd_lookup (SpecLookup).                                   *)
(***************************************************************************)
\* how many times x occurs in seq
Count(seq, x) == Cardinality({k \in 1..Len(seq) : seq[k] = x})

Called(rpc, name) == \E i \in 1..Len(rpc) : rpc[i] = name

Printed(out, what) == \E i \in 1..Len(out) : out[i].what = what

DetailReturned == lpc = "done" /\ Called(lrpc, "readAllFeedback") /\ ~lfb.raised

\* The decoded tag of every slot of a list in the ledger's index order,
\* tag1 before tag2: slot 2i-1 is tag1 of record i, slot 2i its tag2.  A
\* slot of a revoked record counts as empty.
SlotTags(fetched) ==
    SubSeq([j \in 1..(2 * Len(fetched)) |->
              LET fb == fetched[(j + 1) \div 2]
              IN IF fb[6] THEN <<>>
                 ELSE string_from_bytes32(fb[IF j % 2 = 1 THEN 3 ELSE 4])],
           1, 2 * Len(fetched))

\* The report the claim describes, told apart from the way the code
\* computes it: the count of a tag is the number of slots that hold it, its
\* first sight the least such slot.
ReportIs(fetched, report) ==
    LET slots == SlotTags(fetched)
        tags == {slots[j] : j \in 1..Len(slots)} \ {<<>>}
        count(t) == Cardinality({j \in 1..Len(slots) : slots[j] = t})
        first(t) == CHOOSE j \in 1..Len(slots) :
                        /\ slots[j] = t
                        /\ \A i \in 1..(j - 1) : slots[i] # t
        before(t, u) == \/ count(t) > count(u)
                        \/ count(t) = count(u) /\ first(t) < first(u)
    IN /\ Len(report) = Min(TopTags, Cardinality(tags))
       /\ \A k \in 1..Len(report) :
            /\ report[k][1] \in tags
            /\ report[k][2] = count(report[k][1])
            /\ Cardinality({u \in tags : before(u, report[k][1])}) = k - 1

\* the decoded tags of the non-revoked records of a list
TagsOf(fetched) ==
    LET slots == SlotTags(fetched)
    IN {slots[j] : j \in 1..Len(slots)} \ {<<>>}

\* C7: for every list the ledger returns to lookup, the tags reported are
\* the counts of each non-empty decoded tag over both slots of the
\* non-revoked records, by descending count, ties in first-seen order, cut
\* to the first five; with no such tag no tag line is printed.
C7_TagFrequencies ==
    DetailReturned =>
        IF Printed(lout, "Tags")
        THEN LET last == lout[Len(lout)]
             IN /\ last.what = "Tags"
                /\ last.stream = "stdout"
                /\ last.data # <<>>
                /\ ReportIs(lfb.val, last.data)
        ELSE ReportIs(lfb.val, <<>>)

\* more than five tags, one of them counted twice from two slots whose
\* bytes differ: the report was cut to five, that tag first
C7_Witness ==
    /\ DetailReturned
    /\ Cardinality(TagsOf(lfb.val)) > TopTags
    /\ Printed(lout, "Tags")
    /\ Len(lout[Len(lout)].data) = TopTags
    /\ lout[Len(lout)].data[1][2] = 2
    /\ lout[Len(lout)].data[2][2] = 1

\* a revoked record that carries tags was fetched among records that count
RevokedFetched ==
    /\ DetailReturned
    /\ \E i \in 1..Len(lfb.val) : lfb.val[i][6] /\ lfb.val[i][3] # TagEmpty
    /\ \E i \in 1..Len(lfb.val) : ~lfb.val[i][6] /\ lfb.val[i][3] = TagReliable
    /\ Printed(lout, "Tags")

\* the scenario of three entries tagged fast/"", reliable/fast, ""/"":
\* fast (2), reliable (1)
ScenarioReached ==
    /\ DetailReturned
    /\ lfb.val = <<Feedback(AddrAlice, 80, TagFast, TagEmpty, FALSE),
                   Feedback(AddrBob, 90, TagReliable, TagFast, FALSE),
                   Feedback(AddrAlice, 100, TagEmpty, TagEmpty, FALSE)>>
    /\ lout[Len(lout)].data
         = <<<<string_from_bytes32(TagFast), 2>>, <<string_from_bytes32(TagReliable), 1>>>>

\* C8: when the summary came with feedbackCount > 0 and the detailed fetch
\* fails, lookup still reports the ledger's average and count, prints no tag
\* line and no diagnostic, and ends with status 0.
C8_DetailFailureNotFatal ==
    (lpc = "done" /\ Called(lrpc, "readAllFeedback") /\ lfb.raised) =>
        /\ ~lsum.raised
        /\ lsum.val[2] > 0
        /\ lexit = 0
        /\ lout = LookupHead(largs)
                  \o <<Line("stdout", "Score", <<lsum.val[3], lsum.val[2]>>)>>

C8_Witness ==
    /\ lpc = "done"
    /\ Called(lrpc, "readAllFeedback")
    /\ lfb.raised
    /\ lfb.exc.kind = "timeout"
    /\ lsum.val = <<270, 3, 90>>
    /\ lexit = 0

\* C4: a getSummary call that fails with a revert is reported as no feedback
\* yet with status 0; one that fails for connectivity (timeout, malformed
\* response, connection loss) is a query error with a non-zero status and is
\* never reported as no feedback.
C4_SummaryFailureTold ==
    (lpc = "done" /\ Called(lrpc, "getSummary") /\ lsum.raised) =>
        IF lsum.exc.kind = "revert"
        THEN /\ Printed(lout, "Score: No feedback yet")
             /\ lexit = 0
        ELSE /\ Printed(lout, "Error querying reputation")
             /\ ~Printed(lout, "Score: No feedback yet")
             /\ lexit # 0

\* what holds of the code: the message alone decides
SummaryFailureByMessage ==
    (lpc = "done" /\ Called(lrpc, "getSummary") /\ lsum.raised) =>
        IF IsRevertMessage(lsum.exc.msg)
        THEN /\ Printed(lout, "Score: No feedback yet")
             /\ lexit = 0
        ELSE /\ Printed(lout, "Error querying reputation")
             /\ ~Printed(lout, "Score: No feedback yet")
             /\ lexit # 0

(***************************************************************************)
(* Claims about cmd_my_rep (SpecMyRep).                                    *)
(***************************************************************************)
\* the query of a chain failed: no connection, or a getSummary call that
\* raised anything but a revert (a revert stands for the empty summary)
QueryFailed(resp) ==
    \/ ~resp.connected
    \/ resp.summary.raised /\ resp.summary.exc.kind # "revert"

\* the loop ran over every chain: one line per chain after the heading, in
\* the order of CHAINS, and every chain was probed, in that order
OnePerChain ==
    /\ Len(mres) = Len(ChainKeys)
    /\ Len(mout) = 1 + Len(ChainKeys)
    /\ \A i \in 1..Len(ChainKeys) : mout[i + 1].data[1] = ChainName(ChainKeys[i])
    /\ LET probes == {j \in 1..Len(mrpc) : mrpc[j][2] = "is_connected"}
       IN /\ Cardinality(probes) = Len(ChainKeys)
          /\ \A i \in 1..Len(ChainKeys) :
               Cardinality({j \in probes : mrpc[j][1] = ChainKeys[i]}) = 1
          /\ \A j, k \in probes :
               j < k => \E a, b \in 1..Len(ChainKeys) :
                          a < b /\ mrpc[j][1] = ChainKeys[a] /\ mrpc[k][1] = ChainKeys[b]

\* C5: whichever chains fail, my-rep gives one result per registered chain
\* in registry order: the summary for a chain whose query succeeded, the
\* captured failure for a chain whose query failed; no failure keeps the
\* later chains from being queried.
C5_ResultPerChain ==
    (mpc = "done" /\ ~validate_address(margs.agent_id).raised) =>
        /\ OnePerChain
        /\ \A i \in 1..Len(ChainKeys) :
            LET resp == mres[i]
                line == mout[i + 1]
            IN IF QueryFailed(resp)
               THEN line.what = "Error"
               ELSE IF resp.summary.raised \/ resp.summary.val[2] = 0
                    THEN line.what = "No feedback"
                    ELSE /\ line.what = "Reviews"
                         /\ line.data = <<ChainName(ChainKeys[i]),
                                          resp.summary.val[3], resp.summary.val[2]>>

\* what holds of the code: one line per chain in registry order whatever
\* fails, an error line exactly when what was raised has a message without
\* "revert" and "execution"
ResultPerChainByMessage ==
    (mpc = "done" /\ ~validate_address(margs.agent_id).raised) =>
        /\ OnePerChain
        /\ mexit = 0
        /\ \A i \in 1..Len(ChainKeys) :
            LET r == MyRepRaised(ChainKeys[i], mres[i])
                line == mout[i + 1]
            IN IF r.raised
               THEN IF IsRevertMessage(r.exc.msg)
                    THEN line.what = "No feedback"
                    ELSE line.what = "Error" /\ line.data[2] = r.exc.msg
               ELSE IF r.val[2] = 0
                    THEN line.what = "No feedback"
                    ELSE /\ line.what = "Reviews"
                         /\ line.data = <<ChainName(ChainKeys[i]), r.val[3], r.val[2]>>

\* chain 2 could not be reached and chain 4 timed out, the others answered
IsolationReached ==
    /\ mpc = "done"
    /\ Len(mout) = 1 + Len(ChainKeys)
    /\ ~mres[2].connected
    /\ mres[4].summary.raised
    /\ mres[4].summary.exc.msg = MsgReadTimedOut
    /\ mout[2].what = "Reviews"
    /\ mout[3].what = "Error"
    /\ mout[4].what = "Reviews"
    /\ mout[5].what = "Error"
    /\ mout[6].what = "No feedback"

\* lookup holds a summary: the call returned one, or the except clause of
\* lines 272-276 made one of a failure it takes for a revert
SummaryObtained ==
    /\ Called(lrpc, "getSummary")
    /\ lsum.raised => IsRevertMessage(lsum.exc.msg)

\* the feedbackCount of the summary lookup holds
ObtainedCount == IF lsum.raised THEN 0 ELSE lsum.val[2]

\* C16: lookup makes the all-feedback call if and only if the summary it
\* obtained has feedbackCount > 0.  With feedbackCount 0, returned by the
\* ledger or made by the revert translation, it prints the no-feedback-yet
\* line, ends with status 0 and makes no all-feedback call; with a count
\* above 0 it prints the score and makes the call once before it ends.
C16_DetailIffCount ==
    /\ Called(lrpc, "readAllFeedback") => (SummaryObtained /\ ObtainedCount > 0)
    /\ SummaryObtained =>
        IF ObtainedCount = 0
        THEN /\ lpc = "done"
             /\ lexit = 0
             /\ lout[Len(lout)] = Line("stdout", "Score: No feedback yet", <<>>)
             /\ ~Printed(lout, "Score")
             /\ ~Called(lrpc, "readAllFeedback")
        ELSE /\ Printed(lout, "Score")
             /\ ~Printed(lout, "Score: No feedback yet")
             /\ \/ lpc = "detail" /\ ~Called(lrpc, "readAllFeedback")
                \/ lpc = "done" /\ lrpc[Len(lrpc)] = "readAllFeedback"
                                /\ Count(lrpc, "readAllFeedback") = 1

\* the ledger returned a summary with feedbackCount 0 and lookup ended
\* without the detailed fetch
C16_Witness ==
    /\ lpc = "done"
    /\ Called(lrpc, "getSummary")
    /\ ~lsum.raised
    /\ lsum.val = <<0, 0, 0>>
    /\ lrpc = <<"is_connected", "getSummary">>
    /\ lexit = 0

\* the count 0 came from the revert translation
TranslatedZeroReached ==
    /\ lpc = "done"
    /\ Called(lrpc, "getSummary")
    /\ lsum.raised
    /\ lsum.exc.kind = "revert"
    /\ lrpc = <<"is_connected", "getSummary">>

\* a count above 0 was followed by the detailed fetch
DetailFetchedReached ==
    /\ lpc = "done"
    /\ SummaryObtained
    /\ ObtainedCount = 3
    /\ lrpc = <<"is_connected", "getSummary", "readAllFeedback">>

\* what a command made of a getSummary call: no feedback, the ledger's
\* average and count, or an error with the failure's message
Class(kind, avg, count, msg) == [kind |-> kind, avg |-> avg, count |-> count, msg |-> msg]

\* what lookup made of its call, read from what it printed
LookupClass ==
    LET k == CHOOSE j \in 1..Len(lout) :
                lout[j].what \in {"Score: No feedback yet", "Score",
                                  "Error querying reputation"}
    IN IF lout[k].what = "Score: No feedback yet" THEN Class("none", 0, 0, <<>>)
       ELSE IF lout[k].what = "Score"
       THEN Class("reviews", lout[k].data[1], lout[k].data[2], <<>>)
       ELSE Class("error", 0, 0, lout[k].data)

\* what my-rep makes of a call, read from the line it prints for the chain
MyRepClass(line) ==
    IF line.what = "No feedback" THEN Class("none", 0, 0, <<>>)
    ELSE IF line.what = "Reviews"
    THEN Class("reviews", line.data[2], line.data[3], <<>>)
    ELSE Class("error", 0, 0, line.data[2])

\* C19: lookup and my-rep classify the outcome of a getSummary call alike.
\* For the chain lookup queried and the answer or failure it got, lookup
\* reports no feedback exactly when my-rep prints no feedback for that
\* chain, the ledger's average and count exactly when my-rep prints them,
\* and an error, with the same message, exactly when my-rep prints an error.
C19_SameClassification ==
    Called(lrpc, "getSummary") =>
        /\ \E j \in 1..Len(lout) :
            lout[j].what \in {"Score: No feedback yet", "Score",
                              "Error querying reputation"}
        /\ LookupClass =
            MyRepClass(MyRepLine(ChainOf(largs), [connected |-> TRUE, summary |-> lsum]))
        /\ LookupClass.kind = "error" <=> lexit # 0

\* a failure that is no revert but says 'execution': both commands take it
\* for no feedback
C19_Witness ==
    /\ lpc = "done"
    /\ Called(lrpc, "getSummary")
    /\ lsum.raised
    /\ lsum.exc.msg = MsgExecutionAborted
    /\ ChainOf(largs) = "bnb"
    /\ LookupClass.kind = "none"
    /\ MyRepLine("bnb", [connected |-> TRUE, summary |-> lsum]).what = "No feedback"

\* each of the other classes was reached
ClassReached(kind) ==
    /\ lpc = "done"
    /\ Called(lrpc, "getSummary")
    /\ LookupClass.kind = kind
    /\ MyRepClass(MyRepLine(ChainOf(largs),
                            [connected |-> TRUE, summary |-> lsum])).kind = kind

(***************************************************************************)
(* Claims about cmd_give and cmd_revoke (Spec).                            *)
(***************************************************************************)
\* the calls that make a transaction: the sequence-number and gas queries,
\* the signing and the broadcast
TxCalls ==
    {"get_transaction_count", "gas_price", "estimate_gas", "sign_transaction",
     "send_raw_transaction", "wait_for_transaction_receipt"}

MadeTxCall(i) == \E k \in 1..Len(i.calls) : i.calls[k] \in TxCalls

Broadcast(p) == \E h \in 1..Len(txs) : txs[h].by = p

\* invocation i printed a line of this kind on this stream
Says(i, stream, what) ==
    \E k \in 1..Len(i.out) : i.out[k].what = what /\ i.out[k].stream = stream

\* C1: a revoke whose record read at the index has a reviewer that differs,
\* letter case aside, from the wallet's address ends in NotAuthorized (exit
\* status 1, both addresses reported) whether or not the record is revoked,
\* and builds, signs and broadcasts no transaction.
C1_RevokeNotAuthorized ==
    \A p \in DOMAIN inv :
        LET i == inv[p]
        IN (i.cmd = "revoke" /\ i.read /\ Lower(i.feedback[1]) # Lower(i.address)) =>
            /\ i.pc = "done"
            /\ i.exit = 1
            /\ Says(i, "stderr", "Error: Feedback was not given by your wallet")
            /\ \E k \in 1..Len(i.out) :
                 i.out[k].what = "Reviewer" /\ i.out[k].data = i.feedback[1]
            /\ \E k \in 1..Len(i.out) :
                 i.out[k].what = "Your address" /\ i.out[k].data = i.address
            /\ ~MadeTxCall(i)
            /\ ~i.signed
            /\ ~Broadcast(p)

\* a revoked record of another reviewer was read
C1_Witness ==
    \E p \in DOMAIN inv :
        /\ inv[p].cmd = "revoke"
        /\ inv[p].read
        /\ inv[p].feedback[1] = AddrBob
        /\ inv[p].address = AddrAlice
        /\ inv[p].feedback[6]
        /\ inv[p].exit = 1

\* C2, as claimed: a revoke on an index whose record is revoked already
\* returns normally with status 0 and makes no sequence-number query, no
\* signing and no broadcast.
C2_RevokedIsNoOp ==
    \A p \in DOMAIN inv :
        LET i == inv[p]
        IN (i.cmd = "revoke" /\ i.read /\ i.feedback[6]) =>
            /\ i.pc = "done"
            /\ i.exit = 0
            /\ Says(i, "stdout", "Feedback is already revoked")
            /\ ~MadeTxCall(i)
            /\ ~Broadcast(p)

\* C2, amended: a revoke on an index whose record is revoked already and
\* whose reviewer is the wallet's address, letter case aside, returns
\* normally with status 0; no revoke on a revoked record, whoever its
\* reviewer, makes a sequence-number query, a signing or a broadcast.
C2_ReviewerRevokedIsNoOp ==
    \A p \in DOMAIN inv :
        LET i == inv[p]
        IN (i.cmd = "revoke" /\ i.read /\ i.feedback[6]) =>
            /\ i.pc = "done"
            /\ ~MadeTxCall(i)
            /\ ~Broadcast(p)
            /\ Lower(i.feedback[1]) = Lower(i.address) =>
                /\ i.exit = 0
                /\ i.out = <<Line("stdout", "Feedback is already revoked",
                                  <<i.args.feedback_index>>)>>

\* the wallet's own revoked record, its reviewer in another letter case
C2_Witness ==
    \E p \in DOMAIN inv :
        /\ inv[p].cmd = "revoke"
        /\ inv[p].read
        /\ inv[p].feedback[6]
        /\ inv[p].feedback[1] = AddrAliceLower
        /\ inv[p].address = AddrAlice
        /\ inv[p].exit = 0
        /\ inv[p].pc = "done"

\* C3: a give with a score outside 0..100 ends with a validation failure
\* and a non-zero status before any network interaction: no wallet is
\* loaded, nothing is connected, queried or broadcast.
C3_ScoreCheckedFirst ==
    \A p \in DOMAIN inv :
        LET i == inv[p]
        IN (i.cmd = "give" /\ (i.args.score < 0 \/ i.args.score > 100)) =>
            /\ i.pc \in {"begin", "done"}
            /\ i.calls = <<>>
            /\ i.address = <<>>
            /\ ~Broadcast(p)
            /\ i.pc = "done" =>
                /\ i.exit # 0
                /\ Len(i.out) = 1
                /\ i.out[1].stream = "stderr"
                /\ \/ i.out[1].what = "Error: Score must be between 0 and 100"
                   \/ /\ i.out[1].what = "Traceback"
                      /\ i.out[1].data = "ValueError"
                      /\ validate_address(i.args.agent_id).raised

\* give 150 with a wallet configured ended on the score check
C3_Witness ==
    \E p \in DOMAIN inv :
        /\ inv[p].cmd = "give"
        /\ inv[p].args.score = 150
        /\ inv[p].env.mnemonic # ""
        /\ inv[p].pc = "done"
        /\ inv[p].exit = 1
        /\ inv[p].out[1].what = "Error: Score must be between 0 and 100"

\* what of an ended invocation the program itself decides: the exit status,
\* the stream and the kind of its last line.  The text after the colon of an
\* except line is the library's message, passed through.
OutcomeOf(i) ==
    [exit |-> i.exit, stream |-> i.out[Len(i.out)].stream,
     what |-> i.out[Len(i.out)].what]

\* the outcomes of the failures before broadcast, as the except clause
\* makes them
PreBroadcastOutcomes ==
    {OutcomeOf(Except(Invocation(c, WriteArgs(AgentId(TRUE, 42, TRUE), 0, <<>>,
                                             <<>>, 0),
                                 [mnemonic |-> "words", private_key |-> ""]), f)) :
        c \in {"give", "revoke"}, f \in NodeFailures \cup {RevertFailure, SignFailure}}

\* the invocation ended on the confirmation timeout
TimedOut(i) == i.pc = "done" /\ i.sent /\ i.raised = TimeExhausted

\* C6: a confirmation timeout after a successful broadcast ends in an
\* outcome of its own, distinct from the outcome of a reverted receipt and
\* from the outcome of every failure before broadcast.
C6_TimeoutOutcomeDistinct ==
    \A p \in DOMAIN inv :
        TimedOut(inv[p]) =>
            /\ OutcomeOf(inv[p]).what # "Transaction failed"
            /\ OutcomeOf(inv[p]) \notin PreBroadcastOutcomes

\* what holds of the code: the timeout ends in the except clause like any
\* failure before broadcast, and apart from the reverted receipt
TimeoutOutcomeIsExcept ==
    \A p \in DOMAIN inv :
        TimedOut(inv[p]) =>
            /\ OutcomeOf(inv[p]).what # "Transaction failed"
            /\ OutcomeOf(inv[p]) \in PreBroadcastOutcomes
            /\ inv[p].exit = 1
            /\ ~Says(inv[p], "stderr", "Transaction failed")

\* the transaction of an invocation that ended on the timeout landed later
LandedAfterTimeout ==
    \E p \in DOMAIN inv :
        /\ TimedOut(inv[p])
        /\ txs[inv[p].tx_hash].state = "success"

\* neither ERC8004_MNEMONIC nor ERC8004_PRIVATE_KEY is set
NoWalletEnv(i) == i.env.mnemonic = "" /\ i.env.private_key = ""

\* the arguments pass the checks made before the wallet is loaded
ArgsPass(i) ==
    /\ ~validate_address(i.args.agent_id).raised
    /\ i.cmd = "give" => (0 <= i.args.score /\ i.args.score <= 100)

WalletNotConfiguredLine == Line("stderr", "Error: Wallet not configured", <<>>)

\* C11, as claimed: a give or revoke started with neither wallet variable
\* set ends in the wallet-not-configured failure (its line on stderr, a
\* non-zero status) with nothing connected, read, signed or broadcast.
C11_WalletNotConfigured ==
    \A p \in DOMAIN inv :
        LET i == inv[p]
        IN NoWalletEnv(i) =>
            /\ i.pc \in {"begin", "done"}
            /\ i.calls = <<>>
            /\ ~i.read
            /\ ~i.signed
            /\ ~Broadcast(p)
            /\ i.pc = "done" => (i.exit # 0 /\ i.out = <<WalletNotConfiguredLine>>)

\* C11, amended: a give or revoke started with neither wallet variable set
\* ends with a non-zero status and one line on stderr, with nothing
\* connected, read, signed or broadcast; the line is the
\* wallet-not-configured one when the agent address is valid and, for give,
\* the score is within 0..100, the checks made before the wallet is loaded.
C11_WalletNotConfiguredAfterArgs ==
    \A p \in DOMAIN inv :
        LET i == inv[p]
        IN NoWalletEnv(i) =>
            /\ i.pc \in {"begin", "done"}
            /\ i.calls = <<>>
            /\ i.address = <<>>
            /\ ~i.read
            /\ ~i.signed
            /\ ~i.sent
            /\ ~Broadcast(p)
            /\ i.pc = "done" =>
                /\ i.exit # 0
                /\ Len(i.out) = 1
                /\ i.out[1].stream = "stderr"
                /\ ArgsPass(i) <=> i.out = <<WalletNotConfiguredLine>>

\* a revoke with valid arguments and no wallet ended on the wallet check
C11_Witness ==
    \E p \in DOMAIN inv :
        /\ inv[p].cmd = "revoke"
        /\ NoWalletEnv(inv[p])
        /\ ArgsPass(inv[p])
        /\ inv[p].pc = "done"
        /\ inv[p].exit = 1
        /\ inv[p].out = <<WalletNotConfiguredLine>>

\* a give with valid arguments and no wallet ended on the wallet check
NoWalletGiveReached ==
    \E p \in DOMAIN inv :
        /\ inv[p].cmd = "give"
        /\ NoWalletEnv(inv[p])
        /\ ArgsPass(inv[p])
        /\ inv[p].pc = "done"
        /\ inv[p].out = <<WalletNotConfiguredLine>>

\* the steps of a write invocation that go to the node or the signer
WriteSteps ==
    {"is_connected", "readFeedback", "get_transaction_count", "gas_price",
     "estimate_gas", "sign_transaction", "send_raw_transaction",
     "wait_for_transaction_receipt"}

\* the lines the except clause printed
ExceptLines(i) == {k \in 1..Len(i.out) : i.out[k].what = ExceptLine(i.cmd, NoFailure).what}

\* the transactions invocation p broadcast
TxsOf(p) == {h \in 1..Len(txs) : txs[h].by = p}

NonceFailureReached ==
    \E p \in DOMAIN inv :
        /\ inv[p].pc = "done"
        /\ inv[p].raised \in NodeFailures
        /\ inv[p].calls[Len(inv[p].calls)] = "get_transaction_count"

\* the calls of a write command in the order of its code, lines 330-359 and
\* 443-478
ExpectedCalls(cmd) ==
    <<"is_connected">>
    \o (IF cmd = "revoke" THEN <<"readFeedback">> ELSE <<>>)
    \o <<"get_transaction_count", "gas_price", "estimate_gas", "sign_transaction",
         "send_raw_transaction", "wait_for_transaction_receipt">>

IsPrefix(s, t) == Len(s) <= Len(t) /\ s = SubSeq(t, 1, Len(s))

\* invocation p broadcast after every earlier step, in order
BroadcastInOrder(p) ==
    LET i == inv[p]
        before == SubSeq(i.calls, 1, Len(i.calls) -
                         (IF Count(i.calls, "wait_for_transaction_receipt") = 1
                          THEN 1 ELSE 0))
    IN /\ ArgsPass(i)
       /\ ~get_wallet(i.env).none
       /\ i.address = get_wallet(i.env).address
       /\ i.cmd = "revoke" =>
            (i.read /\ IsReviewer(i.feedback[1], i.address) /\ ~i.feedback[6])
       /\ before = SubSeq(ExpectedCalls(i.cmd), 1, Len(ExpectedCalls(i.cmd)) - 1)
       /\ i.gas_price = GasPrice
       /\ i.gas = GasEstimate
       /\ i.signed
       /\ \A h \in TxsOf(p) :
            /\ txs[h].nonce = i.nonce
            /\ txs[h].gasPrice = i.gas_price
            /\ txs[h].gas = i.gas
            /\ txs[h].from = i.address

\* the order of the steps, in every state
LifecycleOrder ==
    \A p \in DOMAIN inv :
        LET i == inv[p]
        IN /\ IsPrefix(i.calls, ExpectedCalls(i.cmd))
           /\ Broadcast(p) => BroadcastInOrder(p)
           /\ i.sent <=> Broadcast(p)
           /\ Count(i.calls, "wait_for_transaction_receipt") = 1 =>
                (i.sent /\ TxsOf(p) = {i.tx_hash})
           /\ i.pc = "wait" => (i.sent /\ TxsOf(p) = {i.tx_hash})

\* an ended invocation is left as it ended
OutcomeFinal ==
    \A p \in DOMAIN inv : inv[p].pc = "done" => inv'[p] = inv[p]

\* C13: the steps of a write invocation happen in the order of the
\* lifecycle and none is skipped: a transaction is broadcast only after the
\* validation (for revoke, the authorization read too) passed, the sequence
\* number and the gas price were obtained, the gas was estimated and the
\* transaction was signed, in this order; the confirmation wait starts only
\* once the broadcast returned the transaction's identifier; an ended
\* invocation never changes again.
C13_LifecycleOrder == []LifecycleOrder /\ [][OutcomeFinal]_vars

\* a revoke went through every step and its transaction was confirmed
C13_Witness ==
    \E p \in DOMAIN inv :
        /\ inv[p].cmd = "revoke"
        /\ inv[p].pc = "done"
        /\ inv[p].calls = ExpectedCalls("revoke")
        /\ inv[p].exit = 0
        /\ inv[p].sent

\* a give went through every step
GiveCompleteReached ==
    \E p \in DOMAIN inv :
        /\ inv[p].cmd = "give"
        /\ inv[p].pc = "done"
        /\ inv[p].calls = ExpectedCalls("give")

\* the steps of a write invocation that come before the broadcast
StepsBeforeBroadcast ==
    {"readFeedback", "get_transaction_count", "gas_price", "estimate_gas",
     "sign_transaction"}

\* invocation i caught the failure of a step made before the broadcast
FailedBeforeBroadcast(i) ==
    /\ i.raised # NoFailure
    /\ i.calls # <<>>
    /\ i.calls[Len(i.calls)] \in StepsBeforeBroadcast

\* C14: when a step before the broadcast fails (the record read of revoke,
\* as for an index out of range; the sequence-number query; the gas-price
\* query; the gas estimation; the signing), the invocation ends in a failure
\* with a non-zero status, told on stderr, and broadcasts no transaction.
C14_FailureBeforeBroadcast ==
    \A p \in DOMAIN inv :
        LET i == inv[p]
        IN FailedBeforeBroadcast(i) =>
            /\ i.pc = "done"
            /\ i.exit # 0
            /\ i.out[Len(i.out)] = ExceptLine(i.cmd, i.raised)
            /\ i.out[Len(i.out)].stream = "stderr"
            /\ ~i.sent
            /\ TxsOf(p) = {}
            /\ Count(i.calls, "send_raw_transaction") = 0

\* a revoke of an index the ledger does not hold ended on the refused read
C14_Witness ==
    \E p \in DOMAIN inv :
        /\ inv[p].cmd = "revoke"
        /\ inv[p].args.feedback_index >= Len(ledger)
        /\ inv[p].raised = RevertFailure
        /\ inv[p].calls[Len(inv[p].calls)] = "readFeedback"
        /\ inv[p].pc = "done"
        /\ inv[p].exit = 1
        /\ txs = <<>>

\* each of the other steps failed in some run
EachStepFailureReached(step) ==
    \E p \in DOMAIN inv :
        FailedBeforeBroadcast(inv[p]) /\ inv[p].calls[Len(inv[p].calls)] = step

\* invocation i ended with status 0
Succeeded(i) == i.pc = "done" /\ i.exit = 0

\* invocation i got the receipt of its transaction
GotReceipt(i) ==
    /\ i.pc = "done"
    /\ i.sent
    /\ i.raised = NoFailure
    /\ Count(i.calls, "wait_for_transaction_receipt") = 1

\* the already-revoked return of revoke, lines 457-459
AlreadyRevokedNoOp(i) ==
    /\ i.cmd = "revoke"
    /\ i.read
    /\ i.feedback[6]
    /\ ~i.sent
    /\ i.out = <<Line("stdout", "Feedback is already revoked", <<i.args.feedback_index>>)>>

\* C15: an invocation ends Succeeded for a transaction only when it
\* broadcast that transaction and got its receipt with success status; a
\* receipt with reverted status always ends in Failed, with a non-zero
\* status and the transaction's identifier told; the one Succeeded outcome
\* without a receipt is the already-revoked return of revoke.
C15_SuccessNeedsReceipt ==
    \A p \in DOMAIN inv :
        LET i == inv[p]
        IN /\ Succeeded(i) =>
                \/ /\ GotReceipt(i)
                   /\ i.tx_hash \in TxsOf(p)
                   /\ txs[i.tx_hash].state = "success"
                   /\ i.status = 1
                   /\ Says(i, "stdout", IF i.cmd = "give" THEN "Feedback submitted"
                                        ELSE "Feedback revoked")
                   /\ \E k \in 1..Len(i.out) :
                        i.out[k].what = "Tx" /\ i.out[k].data = i.tx_hash
                \/ AlreadyRevokedNoOp(i)
           /\ (GotReceipt(i) /\ txs[i.tx_hash].state = "reverted") =>
                /\ i.exit # 0
                /\ i.out[Len(i.out)] = Line("stderr", "Transaction failed", i.tx_hash)
                /\ ~Says(i, "stdout", "Feedback submitted")
                /\ ~Says(i, "stdout", "Feedback revoked")
           /\ (i.sent /\ ~Succeeded(i)) => ~Says(i, "stdout", "Tx")

\* a give got a receipt with reverted status and ended in Failed
C15_Witness ==
    \E p \in DOMAIN inv :
        /\ inv[p].cmd = "give"
        /\ GotReceipt(inv[p])
        /\ txs[inv[p].tx_hash].state = "reverted"
        /\ inv[p].exit = 1
        /\ inv[p].out[Len(inv[p].out)].what = "Transaction failed"

\* a revoke got a receipt with success status and ended Succeeded
RevokeConfirmedReached ==
    \E p \in DOMAIN inv :
        /\ inv[p].cmd = "revoke"
        /\ GotReceipt(inv[p])
        /\ txs[inv[p].tx_hash].state = "success"
        /\ Succeeded(inv[p])
        /\ ledger[inv[p].args.feedback_index + 1][6]

(***************************************************************************)
(* Claims about revokes run one after another (SpecSerial).                *)
(***************************************************************************)
\* invocation p ended Succeeded on the success receipt of its transaction
ConfirmedRevoke(p) ==
    /\ Succeeded(inv[p])
    /\ GotReceipt(inv[p])
    /\ txs[inv[p].tx_hash].state = "success"

\* the revoke transactions for the record at index ix that took effect
ConfirmedRevokesOf(ix) ==
    {h \in 1..Len(txs) :
        txs[h].call = <<"revokeFeedback", ix>> /\ txs[h].state = "success"}

SecondBroadcastReached ==
    /\ TimedOut(inv[1])
    /\ inv[2].sent
    /\ Len(txs) = 2
    /\ \E h \in 1..2 : txs[h].state = "success"

(***************************************************************************)
(* Claims about two write invocations at once (SpecConcurrent).            *)
(***************************************************************************)
\* invocation i holds the sequence number get_transaction_count returned
HoldsNonce(i) ==
    \/ i.pc \in {"gas_price", "estimate", "sign", "send", "wait"}
    \/ i.pc = "done" /\ Called(i.calls, "gas_price")

\* both invocations, of one wallet, hold the same sequence number and
\* neither has broadcast yet
BothReadBeforeBroadcast ==
    /\ inv[1].address = inv[2].address
    /\ inv[1].pc = "send"
    /\ inv[2].pc = "send"
    /\ inv[1].nonce = inv[2].nonce
    /\ txs = <<>>

\* C18: write invocations of one wallet are not serialized.  The sequence
\* number an invocation holds is the wallet's count of mined transactions
\* when it asked, whatever another invocation has read or broadcast since;
\* each transaction carries the number its invocation holds; and when both
\* invocations hold the same number before either has broadcast, nothing
\* keeps either from broadcasting.
C18_NotSerialized ==
    /\ \A p \in DOMAIN inv :
        HoldsNonce(inv[p]) => inv[p].nonce <= txcount[inv[p].address]
    /\ \A h \in 1..Len(txs) : txs[h].nonce = inv[txs[h].by].nonce
    /\ BothReadBeforeBroadcast => (ENABLED Send(1) /\ ENABLED Send(2))

\* both invocations broadcast a transaction carrying the same sequence
\* number, and neither transaction has been mined
C18_Witness ==
    /\ inv[1].address = inv[2].address
    /\ inv[1].sent
    /\ inv[2].sent
    /\ Len(txs) = 2
    /\ txs[1].by # txs[2].by
    /\ txs[1].from = txs[2].from
    /\ txs[1].nonce = txs[2].nonce
    /\ txs[1].state = "pending"
    /\ txs[2].state = "pending"

\* of two transactions with one sequence number one was confirmed and the
\* invocation of the other gave up waiting
CollisionLoserReached ==
    /\ Len(txs) = 2
    /\ txs[1].from = txs[2].from
    /\ txs[1].nonce = txs[2].nonce
    /\ \E p \in DOMAIN inv :
        /\ Succeeded(inv[p])
        /\ GotReceipt(inv[p])
        /\ TimedOut(inv[3 - p])

(***************************************************************************)
(* Claims about the end of a write invocation (SpecLive).                  *)
(***************************************************************************)
AllDone == \A p \in DOMAIN inv : inv[p].pc = "done"

\* an invocation is waiting for the receipt of its transaction
Confirming == \E p \in DOMAIN inv : inv[p].pc = "wait"

\* the wait is over: a receipt came, or the wait raised
WaitOver ==
    \A p \in DOMAIN inv :
        /\ inv[p].pc = "done"
        /\ GotReceipt(inv[p]) \/ inv[p].raised # NoFailure

\* C20: every write invocation reaches an end, given that every call it
\* makes returns or raises.  An invocation waiting for confirmation comes
\* to an end with a receipt or with what the wait raised, the timeout of
\* the wait itself when the transaction is never mined; none waits for ever.
C20_Terminates == <>AllDone /\ (Confirming ~> WaitOver)

\* the wait ended on its own timeout and the transaction is pending still
C20_Witness ==
    \E p \in DOMAIN inv :
        /\ TimedOut(inv[p])
        /\ inv[p].calls[Len(inv[p].calls)] = "wait_for_transaction_receipt"
        /\ txs[inv[p].tx_hash].state = "pending"

=============================================================================
